---- MODULE Spec2Model ----
(***************************************************************************)
(* Client-Risk-Dashboard: the risk scorer (utils/riskScoring.ts) and the   *)
(* status workflow (App.handleUpdateStatus, WorkflowManagement) as state   *)
(* machines.                                                               *)
(*                                                                         *)
(* JavaScript numbers are modelled as exact rationals n/d (d > 0) extended *)
(* with NaN (0/0), Infinity (1/0) and -Infinity (-1/0).  Binary rounding   *)
(* error of IEEE doubles and the sign of zero are not modelled.            *)
(***************************************************************************)
EXTENDS Integers, Sequences, FiniteSets, TLC

VARIABLES
  \* --- scorer harness -------------------------------------------------
  customer,          \* the CustomerData handed to calculateRiskScore
  loanPeriodMonths,  \* its second argument
  scored,            \* outcome of the call (NotCalled before it)
  customers,         \* the CustomerData[] handed to calculateAllRiskScores
  allScored,         \* outcome of the batch call (NotCalled before it)
  \* --- workflow -------------------------------------------------------
  store,             \* customer store behind PUT /customers/:id
  customerData,      \* App: useState<CustomerData[]>
  riskScores,        \* WorkflowManagement: useMemo over customerData
  loading,           \* App: useState(true)
  isModalVisible,    \* WorkflowManagement: useState(false)
  currentCustomer,   \* WorkflowManagement: useState<CustomerData | null>
  formStatus,        \* the form's "status" field
  calls              \* invocations of WorkflowManagement.handleUpdateStatus

scorerVars == <<customer, loanPeriodMonths, scored, customers, allScored>>
workflowVars == <<store, customerData, riskScores, loading, isModalVisible, currentCustomer,
                  formStatus, calls>>
vars == <<customer, loanPeriodMonths, scored, customers, allScored,
          store, customerData, riskScores, loading, isModalVisible,
          currentCustomer, formStatus, calls>>

----------------------------------------------------------------------------
(* Bounds of the model *)

\* longest loanRepaymentHistory enumerated for a single scoring call
MaxHistory == 3
\* longest customer list handed to calculateAllRiskScores
MaxBatch == 2
\* most invocations of WorkflowManagement.handleUpdateStatus in one behaviour
MaxCalls == 2

----------------------------------------------------------------------------
(* JavaScript number arithmetic *)

Sgn(i) == IF i > 0 THEN 1 ELSE IF i < 0 THEN -1 ELSE 0

Abs(i) == IF i < 0 THEN -i ELSE i

RECURSIVE GCD(_, _)
GCD(a, b) == IF b = 0 THEN a ELSE GCD(b, a % b)

\* the canonical form of the rational n/d, d > 0
Num(n, d) ==
  LET g == GCD(Abs(n), d) IN [n |-> n \div g, d |-> d \div g]

NaN == [n |-> 0, d |-> 0]

Infinity(s) == [n |-> s, d |-> 0]

IsNaN(x) == x.d = 0 /\ x.n = 0

IsInf(x) == x.d = 0 /\ x.n # 0

IsFinite(x) == x.d > 0

\* x / y
FDiv(x, y) ==
  IF IsNaN(x) \/ IsNaN(y) THEN NaN
  ELSE IF IsInf(x) THEN (IF IsInf(y) THEN NaN
                         ELSE Infinity(x.n * (IF y.n < 0 THEN -1 ELSE 1)))
  ELSE IF IsInf(y) THEN Num(0, 1)
  ELSE IF y.n = 0 THEN (IF x.n = 0 THEN NaN ELSE Infinity(Sgn(x.n)))
  ELSE Num(x.n * y.d * Sgn(y.n), x.d * Abs(y.n))

\* x * y
FMul(x, y) ==
  IF IsNaN(x) \/ IsNaN(y) THEN NaN
  ELSE IF IsInf(x) \/ IsInf(y)
       THEN (IF x.n = 0 \/ y.n = 0 THEN NaN ELSE Infinity(Sgn(x.n) * Sgn(y.n)))
  ELSE Num(x.n * y.n, x.d * y.d)

\* x + y
FAdd(x, y) ==
  IF IsNaN(x) \/ IsNaN(y) THEN NaN
  ELSE IF IsInf(x) THEN (IF IsInf(y) /\ y.n # x.n THEN NaN ELSE x)
  ELSE IF IsInf(y) THEN y
  ELSE Num(x.n * y.d + y.n * x.d, x.d * y.d)

\* x < y (false when either is NaN)
FLt(x, y) ==
  /\ ~IsNaN(x)
  /\ ~IsNaN(y)
  /\ IF IsInf(x) THEN x.n < 0 /\ ~(IsInf(y) /\ y.n < 0)
     ELSE IF IsInf(y) THEN y.n > 0
     ELSE x.n * y.d < y.n * x.d

\* x > y
FGt(x, y) == FLt(y, x)

MathMin(x, y) ==
  IF IsNaN(x) \/ IsNaN(y) THEN NaN ELSE IF FLt(y, x) THEN y ELSE x

MathMax(x, y) ==
  IF IsNaN(x) \/ IsNaN(y) THEN NaN ELSE IF FLt(x, y) THEN y ELSE x

\* Math.floor, a variant of the rounding that truncates toward -Infinity
MathFloor(x) ==
  IF x.d = 0 THEN x ELSE Num(x.n \div x.d, 1)

\* Math.round: floor(x + 0.5); NaN and the infinities are returned as they are
MathRound(x) ==
  IF x.d = 0 THEN x ELSE Num((2 * x.n + x.d) \div (2 * x.d), 1)

\* an integer as a number
I(i) == Num(i, 1)

\* a number is one of the integers lo..hi
IsIntIn(x, lo, hi) == x.d = 1 /\ lo <= x.n /\ x.n <= hi

----------------------------------------------------------------------------
(* utils/riskScoring.ts *)

CREDIT_SCORE_WEIGHT == 40
REPAYMENT_HISTORY_WEIGHT == 30
LOAN_RATIO_WEIGHT == 30
DEFAULT_LOAN_PERIOD_MONTHS == 24
THRESHOLD_LOW == 30
THRESHOLD_MEDIUM == 60
minCreditScore == 300
maxCreditScore == 850

\* a variant of a failing call that returns a RiskScore of NaNs instead of
\* throwing
ReturnedGarbage(msg) ==
  [threw |-> FALSE,
   value |-> [customerId |-> msg, score |-> NaN, level |-> "High",
              factors |-> [creditScoreImpact |-> NaN,
                           repaymentHistoryImpact |-> NaN,
                           loanToIncomeRatioImpact |-> NaN]]]

\* outcomes of a call: a thrown Error, or a returned value
Throw(msg) == [threw |-> TRUE, error |-> msg]

Return(v) == [threw |-> FALSE, value |-> v]

NotCalled == [threw |-> FALSE, pending |-> TRUE]

\* customer.loanRepaymentHistory.filter(payment => payment === 0).length
Missed(history) == Cardinality({i \in 1..Len(history) : history[i] = 0})

\* a variant of the credit component that is not inverted: a high credit
\* score contributes more
creditScoreImpactDirect(c) ==
  FMul(MathMax(I(0), MathMin(I(1),
         FDiv(I(c.creditScore - minCreditScore), I(maxCreditScore - minCreditScore)))),
       I(CREDIT_SCORE_WEIGHT))

\* a variant of the credit component that looks at the workflow status: a
\* rejected customer gets the full weight
creditScoreImpactByStatus(c) ==
  IF c.status = "Rejected" THEN I(CREDIT_SCORE_WEIGHT)
  ELSE FMul(MathMax(I(0), MathMin(I(1),
              FDiv(I(maxCreditScore - c.creditScore),
                   I(maxCreditScore - minCreditScore)))),
            I(CREDIT_SCORE_WEIGHT))

creditScoreImpactOf(c) ==
  FMul(MathMax(I(0), MathMin(I(1),
         FDiv(I(maxCreditScore - c.creditScore), I(maxCreditScore - minCreditScore)))),
       I(CREDIT_SCORE_WEIGHT))

\* a variant of the history component without the neutral value for an empty
\* history
repaymentHistoryImpactNoNeutral(c) ==
  IF Len(c.loanRepaymentHistory) = 0
  THEN I(0)
  ELSE FMul(FDiv(I(Missed(c.loanRepaymentHistory)), I(Len(c.loanRepaymentHistory))),
            I(REPAYMENT_HISTORY_WEIGHT))

repaymentHistoryImpactOf(c) ==
  IF Len(c.loanRepaymentHistory) = 0
  THEN FDiv(I(REPAYMENT_HISTORY_WEIGHT), I(2))
  ELSE FMul(FDiv(I(Missed(c.loanRepaymentHistory)), I(Len(c.loanRepaymentHistory))),
            I(REPAYMENT_HISTORY_WEIGHT))

\* a variant of the loan component with the ratio upside down: income over
\* monthly loan burden
loanToIncomeRatioImpactInverted(c, period) ==
  LET monthlyLoanBurden == FDiv(I(c.outstandingLoans), I(period))
      incomeToLoanRatio == FDiv(I(c.monthlyIncome), monthlyLoanBurden)
      normalizedRatio   == MathMin(I(1), FDiv(incomeToLoanRatio, Num(1, 2)))
  IN  FMul(normalizedRatio, I(LOAN_RATIO_WEIGHT))

loanToIncomeRatioImpactOf(c, period) ==
  LET monthlyLoanBurden == FDiv(I(c.outstandingLoans), I(period))
      loanToIncomeRatio == FDiv(monthlyLoanBurden, I(c.monthlyIncome))
      normalizedRatio   == MathMin(I(1), FDiv(loanToIncomeRatio, Num(1, 2)))
  IN  FMul(normalizedRatio, I(LOAN_RATIO_WEIGHT))

totalScoreOf(c, period) ==
  FAdd(FAdd(creditScoreImpactOf(c), repaymentHistoryImpactOf(c)),
       loanToIncomeRatioImpactOf(c, period))

riskLevelOf(totalScore) ==
  IF FLt(totalScore, I(THRESHOLD_LOW)) THEN "Low"
  ELSE IF FLt(totalScore, I(THRESHOLD_MEDIUM)) THEN "Medium"
  ELSE "High"

calculateRiskScore(c, period) ==
  IF c.creditScore < 300 \/ c.creditScore > 850
  THEN Throw("Credit score must be between 300 and 850")
  ELSE IF c.monthlyIncome < 0
  THEN Throw("Monthly income cannot be negative")
  ELSE IF c.outstandingLoans < 0
  THEN Throw("Outstanding loans cannot be negative")
  ELSE LET creditScoreImpact       == creditScoreImpactOf(c)
           repaymentHistoryImpact  == repaymentHistoryImpactOf(c)
           loanToIncomeRatioImpact == loanToIncomeRatioImpactOf(c, period)
           totalScore == FAdd(FAdd(creditScoreImpact, repaymentHistoryImpact),
                              loanToIncomeRatioImpact)
       IN  Return([customerId |-> c.customerId,
                   score |-> MathRound(totalScore),
                   level |-> riskLevelOf(totalScore),
                   factors |->
                     [creditScoreImpact |-> MathRound(creditScoreImpact),
                      repaymentHistoryImpact |-> MathRound(repaymentHistoryImpact),
                      loanToIncomeRatioImpact |->
                        MathRound(loanToIncomeRatioImpact)]])

getRiskColor(score) ==
  IF FLt(score, I(30)) THEN "#52c41a"
  ELSE IF FLt(score, I(60)) THEN "#faad14"
  ELSE "#f5222d"

----------------------------------------------------------------------------
(* Inputs *)

Statuses == {"Review", "Approved", "Rejected"}

CustomerIds == <<"C001", "C002", "C003">>

CreditScores == {299, 300, 575, 620, 850, 851}

Incomes == {-1, 0, 100, 4000}

Loans == {-1, 0, 384, 24000}

Periods == {-12, 0, 12, 24}

\* every sequence over S of length at most n
RECURSIVE SeqsUpTo(_, _)
SeqsUpTo(S, n) ==
  IF n = 0 THEN {<<>>}
  ELSE LET shorter == SeqsUpTo(S, n - 1)
       IN  shorter \cup {Append(h, x) : h \in shorter, x \in S}

Histories == SeqsUpTo({0, 1}, MaxHistory)

Customer(id, cs, income, loans, history, status) ==
  [customerId |-> id, creditScore |-> cs, monthlyIncome |-> income,
   outstandingLoans |-> loans, loanRepaymentHistory |-> history,
   status |-> status]

\* the profiles a single scoring call is tried on
Profiles ==
  {Customer(CustomerIds[1], cs, inc, ln, h, st) :
     cs \in CreditScores, inc \in Incomes, ln \in Loans, h \in Histories,
     st \in Statuses}
  \cup {Customer(CustomerIds[1], 620, 4000, 24000, <<1, 1, 0, 1, 1, 1>>, "Review")}

\* financial data of the customers of the batch and workflow scenarios:
\* <<creditScore, monthlyIncome, outstandingLoans, loanRepaymentHistory>>
Financials ==
  { <<850, 4000, 0, <<1, 1>>>>,                   \* total 0:    Low, score 0
    <<620, 4000, 24000, <<1, 1, 0, 1, 1, 1>>>>,   \* total 36.7: Medium, score 37
    <<575, 100, 384, <<1>>>>,                     \* total 29.6: Low, score 30
    <<300, 4000, 0, <<0>>>>,                      \* total 70:   High, score 70
    <<300, 100, 24000, <<0>>>>,                   \* total 100:  High, score 100
    <<620, 0, 0, <<>>>>,                          \* monthlyIncome 0
    <<200, 4000, 0, <<1>>>> }                     \* creditScore out of range

\* the first customer of the workflow scenarios ranges over these
WorkflowFinancials ==
  { <<850, 4000, 0, <<1, 1>>>>,     \* Low, score 0
    <<300, 4000, 0, <<0>>>>,        \* High, score 70
    <<300, 100, 24000, <<0>>>>,     \* High, score 100
    <<620, 0, 0, <<>>>>,            \* monthlyIncome 0
    <<200, 4000, 0, <<1>>>> }       \* creditScore out of range

\* the stores of the workflow scenarios: two customers under review
WorkflowStores ==
  { <<Customer(CustomerIds[1], f[1], f[2], f[3], f[4], "Review"),
      Customer(CustomerIds[2], 620, 4000, 24000, <<1, 1, 0, 1, 1, 1>>, "Review")>> :
      f \in WorkflowFinancials }

\* customer lists of length n, the i-th customer carrying the i-th id
RECURSIVE CustomerLists(_)
CustomerLists(n) ==
  IF n = 0 THEN {<<>>}
  ELSE {Append(l, Customer(CustomerIds[n], f[1], f[2], f[3], f[4], "Review")) :
          l \in CustomerLists(n - 1), f \in Financials}

\* calculateRiskScore(customer) with the default period; the scores of the
\* customers of the scenarios are tabulated once
ScenarioCustomers ==
  {Customer(CustomerIds[i], f[1], f[2], f[3], f[4], st) :
     i \in 1..Len(CustomerIds), f \in Financials, st \in Statuses}

ScenarioScores ==
  [c \in ScenarioCustomers |-> calculateRiskScore(c, DEFAULT_LOAN_PERIOD_MONTHS)]

calculateRiskScoreDefault(c) ==
  IF c \in ScenarioCustomers THEN ScenarioScores[c]
  ELSE calculateRiskScore(c, DEFAULT_LOAN_PERIOD_MONTHS)

\* a variant of the batch scorer that returns the scores last profile first
calculateAllRiskScoresReversed(cs) ==
  LET each == [i \in 1..Len(cs) |-> calculateRiskScoreDefault(cs[i])]
      bad  == {i \in 1..Len(cs) : each[i].threw}
  IN  IF bad # {}
      THEN each[CHOOSE i \in bad : \A j \in bad : i <= j]
      ELSE Return([i \in 1..Len(cs) |-> each[Len(cs) + 1 - i].value])

\* customers.map(customer => calculateRiskScore(customer)): the first throw
\* leaves the map and no array is returned
calculateAllRiskScores(cs) ==
  LET each == [i \in 1..Len(cs) |-> calculateRiskScoreDefault(cs[i])]
      bad  == {i \in 1..Len(cs) : each[i].threw}
  IN  IF bad # {}
      THEN each[CHOOSE i \in bad : \A j \in bad : i <= j]
      ELSE Return([i \in 1..Len(cs) |-> each[i].value])

----------------------------------------------------------------------------
(* Scorer harness: one call of calculateRiskScore, one of calculateAllRiskScores *)

Null == [null |-> TRUE]

Undefined == "undefined"

WorkflowIdle ==
  /\ store = <<>>
  /\ customerData = <<>>
  /\ riskScores = calculateAllRiskScores(<<>>)
  /\ loading = TRUE
  /\ isModalVisible = FALSE
  /\ currentCustomer = Null
  /\ formStatus = Undefined
  /\ calls = <<>>

InitScore ==
  /\ customer \in Profiles
  /\ loanPeriodMonths \in Periods
  /\ scored = NotCalled
  /\ customers = <<>>
  /\ allScored = NotCalled
  /\ WorkflowIdle

Score ==
  /\ scored = NotCalled
  /\ scored' = calculateRiskScore(customer, loanPeriodMonths)
  /\ UNCHANGED <<customer, loanPeriodMonths, customers, allScored>>
  /\ UNCHANGED workflowVars

NextScore == Score

SpecScore == InitScore /\ [][NextScore]_vars

InitBatch ==
  /\ customer = Null
  /\ loanPeriodMonths = DEFAULT_LOAN_PERIOD_MONTHS
  /\ scored = NotCalled
  /\ customers \in UNION {CustomerLists(n) : n \in 0..MaxBatch}
  /\ allScored = NotCalled
  /\ WorkflowIdle

ScoreAll ==
  /\ allScored = NotCalled
  /\ allScored' = calculateAllRiskScores(customers)
  /\ UNCHANGED <<customer, loanPeriodMonths, scored, customers>>
  /\ UNCHANGED workflowVars

NextBatch == ScoreAll

SpecBatch == InitBatch /\ [][NextBatch]_vars

----------------------------------------------------------------------------
(* Claims about the scorer *)

\* the profile meets the preconditions the contract states
ValidProfile(c, period) ==
  /\ 300 <= c.creditScore /\ c.creditScore <= 850
  /\ c.monthlyIncome >= 0
  /\ c.outstandingLoans >= 0
  /\ period > 0

\* the step function of the contract: < 30 Low, < 60 Medium, else High
LevelOfScore(n) ==
  IF n < 30 THEN "Low" ELSE IF n < 60 THEN "Medium" ELSE "High"

\* C2: every returned RiskScore has the level its integer score alone
\* determines: score < 30 Low, 30 <= score < 60 Medium, score >= 60 High.
\* Stated on the profiles that meet the preconditions and have a positive
\* income, where the returned score is always an integer.
C2_LevelIsStepOfScore ==
  (/\ scored # NotCalled
   /\ ValidProfile(customer, loanPeriodMonths)
   /\ customer.monthlyIncome > 0
   /\ ~scored.threw)
    => /\ IsFinite(scored.value.score)
       /\ scored.value.level = LevelOfScore(scored.value.score.n)

\* C3: a call on a profile with monthlyIncome = 0 (any outstandingLoans >= 0,
\* the other inputs within their ranges) throws; it returns no RiskScore.
C3_ZeroIncomeFails ==
  (/\ scored # NotCalled
   /\ ValidProfile(customer, loanPeriodMonths)
   /\ customer.monthlyIncome = 0)
    => scored.threw

\* C4: on a profile meeting the preconditions the call returns an integer score
\* in 0..100 and factor impacts in 0..40, 0..30 and 0..30.
C4_ScoreAndFactorsBounded ==
  (scored # NotCalled /\ ValidProfile(customer, loanPeriodMonths))
    => /\ ~scored.threw
       /\ IsIntIn(scored.value.score, 0, 100)
       /\ IsIntIn(scored.value.factors.creditScoreImpact, 0, 40)
       /\ IsIntIn(scored.value.factors.repaymentHistoryImpact, 0, 30)
       /\ IsIntIn(scored.value.factors.loanToIncomeRatioImpact, 0, 30)

\* C5: after a batch call, every profile of the batch that scores on its own
\* has its RiskScore reported at its position, whatever happens to the others.
C5_BatchIsolatesFailures ==
  allScored # NotCalled =>
    \A i \in 1..Len(customers) :
      ~calculateRiskScore(customers[i], DEFAULT_LOAN_PERIOD_MONTHS).threw
        => /\ ~allScored.threw
           /\ allScored.value[i] =
                calculateRiskScore(customers[i], DEFAULT_LOAN_PERIOD_MONTHS).value

----------------------------------------------------------------------------
(* The customer store behind PUT /customers/:id *)

\* update(customerId, status): the stored records with the status replaced
StoreUpdate(st, id, status) ==
  [i \in 1..Len(st) |->
     IF st[i].customerId = id THEN [st[i] EXCEPT !.status = status] ELSE st[i]]

\* the record the store answers an update with
StoreRecord(st, id) == st[CHOOSE i \in 1..Len(st) : st[i].customerId = id]

----------------------------------------------------------------------------
(* App.tsx and components/Workflow/WorkflowManagement.tsx *)

\* riskScores.find(score => score.customerId === id)
Find(scores, id) ==
  LET hits == {i \in 1..Len(scores) : scores[i].customerId = id}
  IN  IF hits = {} THEN [found |-> FALSE]
      ELSE [found |-> TRUE,
            value |-> scores[CHOOSE i \in hits : \A j \in hits : i <= j]]

\* WorkflowManagement renders its table and modal: the data is loaded and the
\* riskScores memo did not throw during render
Rendered == ~loading /\ ~riskScores.threw

\* the risk score the handler's closure finds for a customer
CustomerRisk(id) == Find(riskScores.value, id)

\* a variant of the alert condition that ignores the target status
AlertOnAnyStatus(risk, status) ==
  risk.found /\ FGt(risk.value.score, I(70))

\* customerRisk && customerRisk.score > 70 && values.status === 'Approved'
AlertCondition(risk, status) ==
  risk.found /\ FGt(risk.value.score, I(70)) /\ status = "Approved"

\* a variant of the update that maps over the list as it was loaded (every
\* customer under review) instead of the previous state
MapUpdatedOverLoaded(prev, id, updatedCustomer) ==
  [i \in 1..Len(prev) |->
     IF prev[i].customerId = id THEN updatedCustomer
     ELSE [prev[i] EXCEPT !.status = "Review"]]

\* a variant of the update that moves the updated record to the front
MapUpdatedMovedToFront(prev, id, updatedCustomer) ==
  LET Other(c) == c.customerId # id
  IN  <<updatedCustomer>> \o SelectSeq(prev, Other)

\* prev.map(customer => customer.customerId === customerId ? updatedCustomer : customer)
MapUpdated(prev, id, updatedCustomer) ==
  [i \in 1..Len(prev) |->
     IF prev[i].customerId = id THEN updatedCustomer ELSE prev[i]]

Notification(kind, message, description) ==
  [kind |-> kind, message |-> message, description |-> description]

NoNotification == Notification("none", "", "")

StatusUpdated == Notification("success", "Status Updated", "status has been updated")

\* a variant of the else branch that reports the failed update as a success
UpdateReportedAsSuccess ==
  Notification("success", "Status Updated", "status has been updated")

\* the else branch of `if (success)`
UpdateFailedElse ==
  Notification("error", "Update Failed",
               "There was an error updating the customer status.")

\* the catch block
UpdateFailedCatch ==
  Notification("error", "Update Failed",
               "There was an error updating the customer status.")

\* api.ts sendHighRiskAlert(customerId, riskScore): the request it sends
sendHighRiskAlert(customerId, riskScore) ==
  [method |-> "POST", path |-> "/alerts",
   body |-> [customerId |-> customerId, riskScore |-> riskScore]]

\* the notifications handleUpdateStatus shows, in order, when the update
\* succeeded: the 'High Risk Alert' warning if due, then 'Status Updated'
SuccessEvents(risk, status) ==
  IF AlertCondition(risk, status) THEN <<"warning", "success">> ELSE <<"success">>

\* a variant of the catch block that swallows the alert's error and goes on
\* to report success
SwallowedAlertError(call) ==
  [call EXCEPT !.pc = "done", !.returned = "true", !.alertThrew = TRUE,
               !.notified = StatusUpdated, !.events = <<"success">>]

\* notification.warning throws after App.handleUpdateStatus returned true:
\* control leaves the try block for the catch block
CaughtAlertError(call) ==
  [call EXCEPT !.pc = "done", !.returned = "true", !.alertThrew = TRUE,
               !.notified = UpdateFailedCatch, !.failedAt = "alert",
               !.events = <<"error">>]

\* a started invocation of WorkflowManagement.handleUpdateStatus: the PUT is
\* on its way to the store
NewCall(cust, status, risk) ==
  [customer |-> cust,      \* currentCustomer of the handler's closure
   status   |-> status,    \* values.status
   risk     |-> risk,      \* customerRisk of the handler's closure
   pc       |-> "put",     \* put (sent), ok (applied and answered), done
   response |-> Null,      \* the record the store answered with
   returned |-> "pending", \* what App.handleUpdateStatus returned
   alerts   |-> 0,         \* 'High Risk Alert' notifications raised
   alertThrew |-> FALSE,   \* raising the alert threw
   notified |-> NoNotification,  \* the outcome shown to the user
   failedAt |-> "none",    \* the step that failed: none, update, alert
   events   |-> <<>>,      \* kinds of the notifications shown, in order
   posted   |-> <<>>,      \* requests sent to POST /alerts (the handler
                           \* never calls sendHighRiskAlert)
   inFlightAtStart |-> {}] \* the invocations still running when this began

Init ==
  /\ customer = Null
  /\ loanPeriodMonths = DEFAULT_LOAN_PERIOD_MONTHS
  /\ scored = NotCalled
  /\ customers = <<>>
  /\ allScored = NotCalled
  /\ store \in WorkflowStores
  /\ customerData = <<>>
  /\ riskScores = calculateAllRiskScores(<<>>)
  /\ loading = TRUE
  /\ isModalVisible = FALSE
  /\ currentCustomer = Null
  /\ formStatus = Undefined
  /\ calls = <<>>

\* App useEffect loadData: fetchCustomers answered
LoadData ==
  /\ loading
  /\ customerData' = store
  /\ riskScores' = calculateAllRiskScores(customerData')
  /\ loading' = FALSE
  /\ UNCHANGED <<store, isModalVisible, currentCustomer, formStatus, calls>>
  /\ UNCHANGED scorerVars

\* App useEffect loadData: fetchCustomers threw
LoadDataFailed ==
  /\ loading
  /\ customerData' = <<>>
  /\ riskScores' = calculateAllRiskScores(customerData')
  /\ loading' = FALSE
  /\ UNCHANGED <<store, isModalVisible, currentCustomer, formStatus, calls>>
  /\ UNCHANGED scorerVars

\* the 'Update Status' button of a table row
openStatusModal(i) ==
  /\ Rendered
  /\ ~isModalVisible
  /\ currentCustomer' = customerData[i]
  /\ formStatus' = customerData[i].status
  /\ isModalVisible' = TRUE
  /\ UNCHANGED <<store, customerData, riskScores, loading, calls>>
  /\ UNCHANGED scorerVars

\* a variant of the Select that does not let a rejected customer leave
\* 'Rejected'
SelectStatusNoReopen(s) ==
  /\ Rendered
  /\ isModalVisible
  /\ formStatus # s
  /\ ~(currentCustomer # Null /\ currentCustomer.status = "Rejected")
  /\ formStatus' = s
  /\ UNCHANGED <<store, customerData, riskScores, loading, isModalVisible, currentCustomer, calls>>
  /\ UNCHANGED scorerVars

\* the status Select of the modal's form
SelectStatus(s) ==
  /\ Rendered
  /\ isModalVisible
  /\ formStatus # s
  /\ formStatus' = s
  /\ UNCHANGED <<store, customerData, riskScores, loading, isModalVisible, currentCustomer, calls>>
  /\ UNCHANGED scorerVars

\* Modal onCancel
CancelModal ==
  /\ Rendered
  /\ isModalVisible
  /\ isModalVisible' = FALSE
  /\ UNCHANGED <<store, customerData, riskScores, loading, currentCustomer, formStatus, calls>>
  /\ UNCHANGED scorerVars

\* Modal onOk -> form.submit() -> onFinish: handleUpdateStatus runs up to its
\* await, App.handleUpdateStatus up to its own, and the PUT is sent
SubmitStatus ==
  /\ Rendered
  /\ isModalVisible
  /\ formStatus # Undefined
  /\ currentCustomer # Null
  /\ Len(calls) < MaxCalls
  /\ calls' = Append(calls,
                     [NewCall(currentCustomer, formStatus,
                              CustomerRisk(currentCustomer.customerId))
                        EXCEPT !.inFlightAtStart =
                                 {m \in 1..Len(calls) : calls[m].pc # "done"}])
  /\ UNCHANGED <<store, customerData, riskScores, loading, isModalVisible, currentCustomer,
                 formStatus>>
  /\ UNCHANGED scorerVars

\* the store applies the PUT of call k and answers with the updated record
StoreApplies(k) ==
  /\ calls[k].pc = "put"
  /\ \E i \in 1..Len(store) : store[i].customerId = calls[k].customer.customerId
  /\ store' = StoreUpdate(store, calls[k].customer.customerId, calls[k].status)
  /\ calls' = [calls EXCEPT ![k].pc = "ok",
                            ![k].response =
                              StoreRecord(store', calls[k].customer.customerId)]
  /\ UNCHANGED <<customerData, riskScores, loading, isModalVisible, currentCustomer, formStatus>>
  /\ UNCHANGED scorerVars

\* the answer of call k arrives: App.handleUpdateStatus maps the record into
\* customerData and returns true; handleUpdateStatus raises the alert if due,
\* shows 'Status Updated', resets the form and closes the modal
ResumeSuccess(k) ==
  /\ calls[k].pc = "ok"
  /\ customerData' = MapUpdated(customerData, calls[k].customer.customerId,
                                calls[k].response)
  /\ riskScores' = calculateAllRiskScores(customerData')
  /\ calls' = [calls EXCEPT
       ![k].pc = "done",
       ![k].returned = "true",
       ![k].alerts = IF AlertCondition(calls[k].risk, calls[k].status) THEN 1 ELSE 0,
       ![k].notified = StatusUpdated,
       ![k].events = SuccessEvents(calls[k].risk, calls[k].status)]
  /\ formStatus' = Undefined
  /\ isModalVisible' = FALSE
  /\ UNCHANGED <<store, loading, currentCustomer>>
  /\ UNCHANGED scorerVars

\* the answer of call k arrives and raising the alert throws: the catch block
\* shows 'Update Failed'; the form and the modal are left as they are
ResumeAlertThrows(k) ==
  /\ calls[k].pc = "ok"
  /\ AlertCondition(calls[k].risk, calls[k].status)
  /\ customerData' = MapUpdated(customerData, calls[k].customer.customerId,
                                calls[k].response)
  /\ riskScores' = calculateAllRiskScores(customerData')
  /\ calls' = [calls EXCEPT ![k] = CaughtAlertError(calls[k])]
  /\ UNCHANGED <<store, loading, isModalVisible, currentCustomer, formStatus>>
  /\ UNCHANGED scorerVars

\* a variant of the failed update that has already written the requested
\* status into customerData
ResumeFailureOptimistic(k) ==
  /\ calls[k].pc = "put"
  /\ calls' = [calls EXCEPT
       ![k].pc = "done",
       ![k].returned = "false",
       ![k].notified = UpdateFailedElse,
       ![k].failedAt = "update",
       ![k].events = <<"error">>]
  /\ customerData' = MapUpdated(customerData, calls[k].customer.customerId,
                                [calls[k].customer EXCEPT !.status = calls[k].status])
  /\ riskScores' = calculateAllRiskScores(customerData')
  /\ UNCHANGED <<store, loading, isModalVisible, currentCustomer, formStatus>>
  /\ UNCHANGED scorerVars

\* the PUT of call k fails (network or server error) and nothing is applied:
\* updateCustomerStatus rethrows, App.handleUpdateStatus catches and returns
\* false; handleUpdateStatus shows 'Update Failed'
ResumeFailure(k) ==
  /\ calls[k].pc = "put"
  /\ calls' = [calls EXCEPT
       ![k].pc = "done",
       ![k].returned = "false",
       ![k].notified = UpdateFailedElse,
       ![k].failedAt = "update",
       ![k].events = <<"error">>]
  /\ UNCHANGED <<store, customerData, riskScores, loading, isModalVisible,
                 currentCustomer, formStatus>>
  /\ UNCHANGED scorerVars

Next ==
  \/ LoadData
  \/ LoadDataFailed
  \/ \E i \in 1..Len(customerData) : openStatusModal(i)
  \/ \E s \in Statuses : SelectStatus(s)
  \/ CancelModal
  \/ SubmitStatus
  \/ \E k \in 1..Len(calls) : StoreApplies(k)
  \/ \E k \in 1..Len(calls) : ResumeSuccess(k)
  \/ \E k \in 1..Len(calls) : ResumeAlertThrows(k)
  \/ \E k \in 1..Len(calls) : ResumeFailure(k)

Spec == Init /\ [][Next]_vars

----------------------------------------------------------------------------
(* Claims about the workflow *)

CallIds == 1..Len(calls)

Done(k) == calls[k].pc = "done"

SameCustomer(j, k) == calls[j].customer.customerId = calls[k].customer.customerId

\* the level calculateRiskScore gives the customer of call k ("none" if it throws)
LevelOfCall(k) ==
  LET r == calculateRiskScoreDefault(calls[k].customer)
  IN  IF r.threw THEN "none" ELSE r.value.level

StatusIn(list, id) == list[CHOOSE i \in 1..Len(list) : list[i].customerId = id].status

\* C1: every change to 'Approved' that completes with success for a customer
\* whose level is High has raised exactly one high-risk alert.
C1_ApprovedHighRaisesOneAlert ==
  \A k \in CallIds :
    (/\ Done(k)
     /\ calls[k].notified = StatusUpdated
     /\ calls[k].status = "Approved"
     /\ LevelOfCall(k) = "High")
      => calls[k].alerts = 1

\* C6: once nothing is in flight, two requests on the same customer that both
\* succeeded leave the client's status of that customer equal to the store's.
C6_SameCustomerRequestsConsistent ==
  \A j, k \in CallIds :
    (/\ j # k
     /\ SameCustomer(j, k)
     /\ \A m \in CallIds : Done(m)
     /\ calls[j].returned = "true"
     /\ calls[k].returned = "true")
      => StatusIn(customerData, calls[k].customer.customerId)
           = StatusIn(store, calls[k].customer.customerId)

\* C7: no two transitions on the same customerId are in flight at once.
C7_AtMostOneInFlightPerCustomer ==
  \A j, k \in CallIds :
    (j # k /\ SameCustomer(j, k)) => (Done(j) \/ Done(k))

\* C8: a transition whose high-risk alert failed to be raised is reported as
\* failed, never as succeeded.
C8_AlertFailureReportedAsFailure ==
  \A k \in CallIds :
    calls[k].alertThrew
      => /\ Done(k)
         /\ calls[k].notified.kind = "error"
         /\ calls[k].notified # StatusUpdated

\* an approval of a High-level customer ended with the alert throwing
C8_Witness ==
  \E k \in CallIds :
    /\ calls[k].alertThrew
    /\ Done(k)
    /\ calls[k].status = "Approved"
    /\ LevelOfCall(k) = "High"

\* C9: two failed transitions that failed at different steps show different
\* outcomes.
C9_FailurePointsDistinguishable ==
  \A j, k \in CallIds :
    (/\ Done(j) /\ Done(k)
     /\ calls[j].failedAt # "none"
     /\ calls[k].failedAt # "none"
     /\ calls[j].failedAt # calls[k].failedAt)
      => calls[j].notified # calls[k].notified

\* scoring the profile must fail under the contract: a precondition is
\* violated or monthlyIncome is 0
ScoringMustFail(c) ==
  ~ValidProfile(c, DEFAULT_LOAN_PERIOD_MONTHS) \/ c.monthlyIncome = 0

\* C10: for a customer whose profile fails scoring no store update is ever
\* issued and the stored status stays the initial 'Review'.
C10_ScoringFailureBlocksTransition ==
  /\ \A k \in CallIds : ~ScoringMustFail(calls[k].customer)
  /\ \A i \in 1..Len(store) :
       ScoringMustFail(store[i]) => store[i].status = "Review"

\* C11: in an approval of a High-level customer every 'success' shown is
\* preceded by the high-risk alert: no success without an earlier alert.
C11_AlertPrecedesSuccess ==
  \A k \in CallIds :
    (calls[k].status = "Approved" /\ LevelOfCall(k) = "High")
      => \A i \in 1..Len(calls[k].events) :
           calls[k].events[i] = "success"
             => \E j \in 1..(i - 1) : calls[k].events[j] = "warning"

\* C12: a transition of a customer whose level is Low or Medium, or to a
\* status other than 'Approved', raises no high-risk alert and attempts none.
C12_NoAlertUnlessHighApproved ==
  \A k \in CallIds :
    (LevelOfCall(k) \in {"Low", "Medium"} \/ calls[k].status # "Approved")
      => /\ calls[k].alerts = 0
         /\ ~calls[k].alertThrew
         /\ \A i \in 1..Len(calls[k].events) : calls[k].events[i] # "warning"

\* a Medium-level customer was approved and a High-level customer was moved
\* to a status other than 'Approved', both with success and without an alert
C12_Witness ==
  /\ \E k \in CallIds :
       /\ Done(k) /\ calls[k].notified = StatusUpdated
       /\ LevelOfCall(k) = "Medium" /\ calls[k].status = "Approved"
       /\ calls[k].alerts = 0
  /\ \E k \in CallIds :
       /\ Done(k) /\ calls[k].notified = StatusUpdated
       /\ LevelOfCall(k) = "High" /\ calls[k].status # "Approved"
       /\ calls[k].alerts = 0

\* C13: every high-risk alert raised comes with a request to the alert sink,
\* POST /alerts, carrying the approved customer's id and risk score.
C13_AlertReachesSink ==
  \A k \in CallIds :
    calls[k].alerts > 0
      => \E i \in 1..Len(calls[k].posted) :
           calls[k].posted[i] =
             sendHighRiskAlert(calls[k].customer.customerId,
                               calls[k].risk.value.score)

----------------------------------------------------------------------------
(* Further claims about the scorer *)

Called == scored # NotCalled

Returned == Called /\ ~scored.threw

\* C14: a call on a profile with creditScore < 300, creditScore > 850,
\* monthlyIncome < 0 or outstandingLoans < 0 throws and returns no RiskScore.
C14_InvalidProfileFails ==
  (/\ Called
   /\ \/ customer.creditScore < 300
      \/ customer.creditScore > 850
      \/ customer.monthlyIncome < 0
      \/ customer.outstandingLoans < 0)
    => scored.threw

\* a call on a profile whose only violation is a negative outstandingLoans threw
C14_Witness ==
  /\ Called
  /\ 300 <= customer.creditScore /\ customer.creditScore <= 850
  /\ customer.monthlyIncome >= 0
  /\ customer.outstandingLoans < 0
  /\ scored.threw
  /\ scored.error = "Outstanding loans cannot be negative"

\* C15: a call with loanPeriodMonths <= 0 throws and returns no RiskScore.
C15_NonPositivePeriodFails ==
  (Called /\ loanPeriodMonths <= 0) => scored.threw

\* n/d (d > 0) rounded to the nearest integer, halves upward
RoundHalfUp(n, d) == (2 * n + d) \div (2 * d)

\* the number of 0 entries of a history
ZeroEntries(h) == Cardinality({i \in 1..Len(h) : h[i] = 0})

\* the contract's score of a valid profile with a positive income, in integer
\* arithmetic: round(40 (850 - cs)/550 + history + 30 min(1, 2 loans/(period income)))
\* with history = 15 if empty, else 30 zeros/entries; the loan ratio q/P is
\* reduced to lowest terms first to keep the products small
ContractScore(c, period) ==
  LET L  == IF Len(c.loanRepaymentHistory) = 0 THEN 1
            ELSE Len(c.loanRepaymentHistory)
      hN == IF Len(c.loanRepaymentHistory) = 0 THEN 15
            ELSE 30 * ZeroEntries(c.loanRepaymentHistory)
      P  == period * c.monthlyIncome
      q  == IF 2 * c.outstandingLoans < P THEN 2 * c.outstandingLoans ELSE P
      g  == GCD(q, P)
      Pr == P \div g
      lN == 30 * (q \div g)
  IN  RoundHalfUp((850 - c.creditScore) * 4 * L * Pr + hN * 55 * Pr + lN * 55 * L,
                  55 * L * Pr)

ExampleProfile(c) ==
  /\ c.creditScore = 620
  /\ c.monthlyIncome = 4000
  /\ c.outstandingLoans = 24000
  /\ c.loanRepaymentHistory = <<1, 1, 0, 1, 1, 1>>

WithLoans(c, loans) == [c EXCEPT !.outstandingLoans = loans]

\* C19: for a scored valid profile with a positive income, the same profile
\* with a larger outstandingLoans never has a smaller loan-to-income impact,
\* neither before rounding nor in the reported factors.
C19_LoanImpactMonotone ==
  (/\ Returned
   /\ ValidProfile(customer, loanPeriodMonths)
   /\ customer.monthlyIncome > 0)
    => \A more \in {l \in Loans : l >= customer.outstandingLoans} :
         LET other == calculateRiskScore(WithLoans(customer, more), loanPeriodMonths)
         IN  /\ ~other.threw
             /\ ~FLt(other.value.factors.loanToIncomeRatioImpact,
                     scored.value.factors.loanToIncomeRatioImpact)
             /\ ~FLt(loanToIncomeRatioImpactOf(WithLoans(customer, more),
                                               loanPeriodMonths),
                     loanToIncomeRatioImpactOf(customer, loanPeriodMonths))

\* a valid profile was scored and the same profile with more outstandingLoans
\* has a strictly larger reported loan-to-income impact
C19_Witness ==
  /\ Returned
  /\ ValidProfile(customer, loanPeriodMonths)
  /\ customer.monthlyIncome > 0
  /\ customer.outstandingLoans > 0
  /\ \E more \in {l \in Loans : l > customer.outstandingLoans} :
       FLt(scored.value.factors.loanToIncomeRatioImpact,
           calculateRiskScore(WithLoans(customer, more), loanPeriodMonths)
             .value.factors.loanToIncomeRatioImpact)

\* C20: on a valid profile the three reported factors are integers whose sum
\* differs from the reported score by at most 1.
C20_FactorsResumWithinOne ==
  (Called /\ ValidProfile(customer, loanPeriodMonths))
    => /\ ~scored.threw
       /\ IsFinite(scored.value.score)
       /\ IsFinite(scored.value.factors.creditScoreImpact)
       /\ IsFinite(scored.value.factors.repaymentHistoryImpact)
       /\ IsFinite(scored.value.factors.loanToIncomeRatioImpact)
       /\ Abs(scored.value.factors.creditScoreImpact.n
                + scored.value.factors.repaymentHistoryImpact.n
                + scored.value.factors.loanToIncomeRatioImpact.n
                - scored.value.score.n) <= 1

\* C21: a batch call on profiles that all score returns as many RiskScores as
\* profiles, in the profiles' order: the i-th carries the i-th customerId and
\* is the i-th profile's score over the default 24 months.
C21_BatchPreservesOrder ==
  (/\ allScored # NotCalled
   /\ \A i \in 1..Len(customers) : ~calculateRiskScore(customers[i], 24).threw)
    => /\ ~allScored.threw
       /\ Len(allScored.value) = Len(customers)
       /\ \A i \in 1..Len(customers) :
            /\ allScored.value[i].customerId = customers[i].customerId
            /\ allScored.value[i] = calculateRiskScore(customers[i], 24).value

\* a batch of two profiles with different scores was scored in order
C21_Witness ==
  /\ allScored # NotCalled
  /\ ~allScored.threw
  /\ Len(customers) = 2
  /\ Len(allScored.value) = 2
  /\ allScored.value[1].customerId = customers[1].customerId
  /\ allScored.value[2].customerId = customers[2].customerId
  /\ allScored.value[1].score # allScored.value[2].score

\* the scored profile with its status replaced
WithStatus(c, status) == [c EXCEPT !.status = status]

\* C22: the outcome of a call is the outcome for the same financial data under
\* every status, and the call leaves its input profile as it was.
C22_ScoreIgnoresStatus ==
  [][Score =>
       /\ customer' = customer
       /\ loanPeriodMonths' = loanPeriodMonths
       /\ \A st \in Statuses :
            scored' = calculateRiskScore(WithStatus(customer, st), loanPeriodMonths)]_vars

\* a profile with status 'Rejected' was scored like the same profile under review
C22_Witness ==
  /\ Returned
  /\ customer.status = "Rejected"
  /\ scored = calculateRiskScore(WithStatus(customer, "Review"), loanPeriodMonths)

\* README, Final Risk Score Interpretation: 0-40 Low (green), 41-70 Medium
\* (orange), 71-100 High (red)
ReadmeLevel(n) ==
  IF n <= 40 THEN "Low" ELSE IF n <= 70 THEN "Medium" ELSE "High"

ReadmeColor(n) ==
  IF n <= 40 THEN "#52c41a" ELSE IF n <= 70 THEN "#faad14" ELSE "#f5222d"

\* C25: the level returned for a valid profile with a positive income and the
\* colour of its score follow the README bands 0-40, 41-70, 71-100.
C25_ReadmeBands ==
  (/\ Returned
   /\ ValidProfile(customer, loanPeriodMonths)
   /\ customer.monthlyIncome > 0)
    => /\ scored.value.level = ReadmeLevel(scored.value.score.n)
       /\ getRiskColor(scored.value.score) = ReadmeColor(scored.value.score.n)

\* two of the history's 0 entries are next to each other
HasConsecutiveMissed(h) ==
  \E i \in 1..(Len(h) - 1) : h[i] = 0 /\ h[i + 1] = 0

\* C26: of two histories of the same length and number of missed payments,
\* the one whose missed payments are consecutive has the higher history
\* impact, and no impact exceeds 30.
C26_ConsecutiveMissedWeighMore ==
  (/\ Returned
   /\ ValidProfile(customer, loanPeriodMonths)
   /\ customer.monthlyIncome > 0) =>
    /\ ~FGt(repaymentHistoryImpactOf(customer), I(30))
    /\ \A h \in Histories :
         (/\ Len(h) = Len(customer.loanRepaymentHistory)
          /\ ZeroEntries(h) = ZeroEntries(customer.loanRepaymentHistory)
          /\ HasConsecutiveMissed(customer.loanRepaymentHistory)
          /\ ~HasConsecutiveMissed(h))
           => FGt(repaymentHistoryImpactOf(customer),
                  repaymentHistoryImpactOf(
                    [customer EXCEPT !.loanRepaymentHistory = h]))

\* the level a colour of getRiskColor stands for
LevelOfColor(color) ==
  IF color = "#52c41a" THEN "Low"
  ELSE IF color = "#faad14" THEN "Medium"
  ELSE "High"

\* C27: the colour getRiskColor gives the returned score of a valid profile
\* is the colour of the returned level.
C27_ColorAgreesWithLevel ==
  (Returned /\ ValidProfile(customer, loanPeriodMonths))
    => LevelOfColor(getRiskColor(scored.value.score)) = scored.value.level

----------------------------------------------------------------------------
(* Further claims about the workflow *)

\* in this step the update of call k is answered with success
Succeeds(k) == calls[k].pc = "ok" /\ calls'[k].pc = "done"

\* in this step the update of call k is answered with failure
Fails(k) == calls[k].pc = "put" /\ calls'[k].pc = "done"

\* with the modal open every status can be chosen and the chosen one submitted
EveryStatusRequestable ==
  (Rendered /\ isModalVisible /\ currentCustomer # Null)
    => /\ \A s \in Statuses : formStatus = s \/ ENABLED SelectStatus(s)
       /\ (formStatus \in Statuses /\ Len(calls) < MaxCalls)
            => ENABLED SubmitStatus

\* C23: whatever the customer's current status, each of the three statuses
\* can be requested, and when the store update succeeds the customer's status
\* in customerData becomes the requested one.
C23_AllTransitionsPermitted ==
  /\ []EveryStatusRequestable
  /\ [][\A k \in CallIds :
          Succeeds(k) =>
            StatusIn(customerData', calls[k].customer.customerId)
              = calls[k].status]_vars

\* a customer was moved from 'Review' to 'Rejected' and then from 'Rejected'
\* back to 'Review', both with success
C23_Witness ==
  \E j, k \in CallIds :
    /\ SameCustomer(j, k)
    /\ Done(j) /\ calls[j].returned = "true"
    /\ Done(k) /\ calls[k].returned = "true"
    /\ calls[j].customer.status = "Review" /\ calls[j].status = "Rejected"
    /\ calls[k].customer.status = "Rejected" /\ calls[k].status = "Review"
    /\ StatusIn(customerData, calls[k].customer.customerId) = "Review"

\* the entry of customerData with the given id
EntryOf(list, id) == list[CHOOSE i \in 1..Len(list) : list[i].customerId = id]

\* call k is the only call on its customer
OnlyCallOnCustomer(k) == \A m \in CallIds : SameCustomer(m, k) => m = k

\* C24: when two updates for different customers both succeeded and no other
\* update touched these customers, customerData carries both records the
\* store answered with, in whichever order the answers arrived.
C24_DifferentCustomersIndependent ==
  \A j, k \in CallIds :
    (/\ ~SameCustomer(j, k)
     /\ OnlyCallOnCustomer(j) /\ OnlyCallOnCustomer(k)
     /\ Done(j) /\ calls[j].returned = "true"
     /\ Done(k) /\ calls[k].returned = "true")
      => /\ EntryOf(customerData, calls[j].customer.customerId) = calls[j].response
         /\ EntryOf(customerData, calls[k].customer.customerId) = calls[k].response

\* two updates for different customers ran at the same time, both succeeded
\* and both changed their customer's status
C24_Witness ==
  \E j, k \in CallIds :
    /\ ~SameCustomer(j, k)
    /\ j \in calls[k].inFlightAtStart
    /\ Done(j) /\ calls[j].returned = "true" /\ calls[j].status # "Review"
    /\ Done(k) /\ calls[k].returned = "true" /\ calls[k].status # "Review"
    /\ EntryOf(customerData, calls[j].customer.customerId).status = calls[j].status
    /\ EntryOf(customerData, calls[k].customer.customerId).status = calls[k].status

\* C28: the step in which an update is answered with failure raises no alert
\* and no success, shows exactly one 'Update Failed' error, and leaves the
\* modal and the form as they are.
C28_UpdateFailureLeavesModalOpen ==
  [][\A k \in CallIds :
       Fails(k) =>
         /\ calls'[k].alerts = 0
         /\ ~calls'[k].alertThrew
         /\ calls'[k].events = <<"error">>
         /\ calls'[k].notified.kind = "error"
         /\ calls'[k].notified.message = "Update Failed"
         /\ isModalVisible' = isModalVisible
         /\ formStatus' = formStatus
         /\ currentCustomer' = currentCustomer]_vars

\* an update failed and the modal is still open on the submitted status
C28_Witness ==
  \E k \in CallIds :
    /\ Done(k)
    /\ calls[k].returned = "false"
    /\ calls[k].notified = UpdateFailedElse
    /\ isModalVisible
    /\ formStatus = calls[k].status

\* C29: the step in which the store update fails returns false and leaves
\* customerData as it was.
C29_FailedUpdateKeepsCustomerData ==
  [][\A k \in CallIds :
       Fails(k) =>
         /\ calls'[k].returned = "false"
         /\ customerData' = customerData]_vars

\* an update to another status failed and the customer kept its status
C29_Witness ==
  \E k \in CallIds :
    /\ Done(k)
    /\ calls[k].returned = "false"
    /\ calls[k].status # calls[k].customer.status
    /\ \A m \in CallIds : m # k => calls[m].returned = "false"
    /\ EntryOf(customerData, calls[k].customer.customerId).status
         = calls[k].customer.status

\* C30: the step in which the store update succeeds returns true and maps
\* customerData entry by entry: same length and order, the entries with the
\* updated id replaced by the store's record, the others untouched.
C30_SuccessfulUpdateMapsCustomerData ==
  [][\A k \in CallIds :
       Succeeds(k) =>
         /\ calls'[k].returned = "true"
         /\ Len(customerData') = Len(customerData)
         /\ \A i \in 1..Len(customerData) :
              customerData'[i] =
                IF customerData[i].customerId = calls[k].customer.customerId
                THEN calls[k].response
                ELSE customerData[i]]_vars

\* the second customer of the list was updated in place
C30_Witness ==
  \E k \in CallIds :
    /\ Done(k)
    /\ calls[k].returned = "true"
    /\ calls[k].status # "Review"
    /\ Len(customerData) = 2
    /\ customerData[2].customerId = calls[k].customer.customerId
    /\ customerData[2] = calls[k].response
    /\ customerData[1].customerId # calls[k].customer.customerId

====
